---------------------------- MODULE Spec2Model ----------------------------
(***************************************************************************)
(* A model of file_tree_builder_tui (src/app.py): the exclusion filter,    *)
(* the binary sniffer, the lazily populated selection tree of FileTreeApp  *)
(* and the Markdown document builder.                                      *)
(*                                                                         *)
(* Paths are modelled as pathlib models them: a tuple of parts.  A path    *)
(* under ROOT is the tuple of its parts relative to ROOT (ROOT itself is   *)
(* the empty tuple); a part (a file name) is a tuple of one-character      *)
(* strings, so that glob matching, suffixes and case folding are computed  *)
(* character by character.  Bytes and code points are integers.            *)
(***************************************************************************)
EXTENDS Integers, Sequences, FiniteSets, TLC

VARIABLES
    cfg,         \* the module-level configuration of app.py (lines 16-39)
    exists,      \* the filesystem: the paths under ROOT that exist now
    unreadable,  \* the existing paths whose listing / opening fails now
    disk_events, \* number of filesystem changes made behind the app's back
    node_index,  \* FileTreeApp.node_index: path -> NodeData of its tree node
    children,    \* TreeNode.children of the node of each indexed path
    populated,   \* history: the nodes whose directory populate_children has
                 \* listed since the tree was last built anew
    phase,       \* "composed" (before on_mount), "running", "dialog", "exited"
    doc,         \* the document written to ROOT / OUTPUT_FILE ("none" before)
    last,        \* the handler that ran last, and the node it ran on
    arg,         \* input of the pure function under check
    res,         \* its result
    pc           \* "app", or "call" / "done" for the pure-function runs

vars == <<cfg, exists, unreadable, disk_events, node_index, children,
          populated, phase, doc, last, arg, res, pc>>

appvars == <<exists, unreadable, disk_events, node_index, children,
             populated, phase, doc, last>>

-----------------------------------------------------------------------------
(* Characters.  Python compares str by code point; ASCII suffices here.    *)
(* AsciiTable[i] is the character of code point 31 + i (the entry of the    *)
(* back quote, which a string of this language cannot hold, is spelled out). *)

AsciiTable ==
    <<" ", "!", "\"", "#", "$", "%", "&", "'", "(", ")", "*", "+", ",", "-",
      ".", "/", "0", "1", "2", "3", "4", "5", "6", "7", "8", "9", ":", ";",
      "<", "=", ">", "?", "@", "A", "B", "C", "D", "E", "F", "G", "H", "I",
      "J", "K", "L", "M", "N", "O", "P", "Q", "R", "S", "T", "U", "V", "W",
      "X", "Y", "Z", "[", "\\", "]", "^", "_", "BACKQUOTE", "a", "b", "c", "d", "e",
      "f", "g", "h", "i", "j", "k", "l", "m", "n", "o", "p", "q", "r", "s",
      "t", "u", "v", "w", "x", "y", "z", "{", "|", "}", "~">>

OrdTable ==
    [c \in {AsciiTable[i] : i \in 1..Len(AsciiTable)} |->
        31 + (CHOOSE i \in 1..Len(AsciiTable) : AsciiTable[i] = c)]

\* ord(c)
Ord(c) == OrdTable[c]

Chr(n) == AsciiTable[n - 31]

\* str.lower() on one character
LowerChar(c) == IF Ord(c) \in 65..90 THEN Chr(Ord(c) + 32) ELSE c

\* str.lower()
Lower(s) == [i \in 1..Len(s) |-> LowerChar(s[i])]

\* Python's s < t on str: lexicographic by code point, a proper prefix first
StrLess(s, t) ==
    \E i \in 1..(Len(t)) :
        /\ \A j \in 1..(i - 1) : j <= Len(s) /\ s[j] = t[j]
        /\ \/ i = Len(s) + 1
           \/ i <= Len(s) /\ Ord(s[i]) < Ord(t[i])

\* str.startswith
StartsWith(s, pre) ==
    Len(pre) <= Len(s) /\ SubSeq(s, 1, Len(pre)) = pre

\* sep.join(parts)
RECURSIVE Join(_, _)
Join(parts, sep) ==
    IF parts = <<>> THEN <<>>
    ELSE IF Len(parts) = 1 THEN parts[1]
    ELSE parts[1] \o <<sep>> \o Join(Tail(parts), sep)

\* str.replace(old, new) for one-character old and new
Replace(s, old, new) == [i \in 1..Len(s) |-> IF s[i] = old THEN new ELSE s[i]]

Min(a, b) == IF a <= b THEN a ELSE b

Range(s) == {s[i] : i \in 1..Len(s)}

-----------------------------------------------------------------------------
(* fnmatch.fnmatchcase(name, pat): the pattern must match the whole name.  *)
(* '*' is any run of characters ('/' and a leading '.' included), '?' is   *)
(* any one character, '[seq]' is one character of seq and '[!seq]' one     *)
(* character not in seq; every other character stands for itself.          *)

(* fnmatch.translate at '[': rest is the pattern after the '['.  The index *)
(* in rest of the ']' that closes the expression, 0 when there is none (the*)
(* '[' is then a literal).  A ']' straight after '[' or '[!' is a member.  *)
bracket_end(rest) ==
    LET neg == IF rest # <<>> /\ rest[1] = "!" THEN 2 ELSE 1
        from == IF neg <= Len(rest) /\ rest[neg] = "]" THEN neg + 1 ELSE neg
        closing == {j \in from..Len(rest) : rest[j] = "]"}
    IN  IF closing = {} THEN 0
        ELSE CHOOSE j \in closing : \A h \in closing : j <= h

(* The chunks translate cuts stuff into at its range hyphens: i is where   *)
(* the current chunk starts and k where the search for the next '-' starts *)
(* (three places after the last one found).  A '-' that ends stuff stays   *)
(* in the last chunk.                                                      *)
RECURSIVE chunks(_, _, _)
chunks(stuff, i, k) ==
    LET hyphens == {h \in k..Len(stuff) : stuff[h] = "-"}
        h == CHOOSE x \in hyphens : \A y \in hyphens : x <= y
    IN  IF hyphens = {} THEN <<SubSeq(stuff, i, Len(stuff))>>
        ELSE IF h = Len(stuff) THEN <<SubSeq(stuff, i, h)>>
        ELSE <<SubSeq(stuff, i, h - 1)>> \o chunks(stuff, h + 1, h + 3)

(* "Remove empty ranges": from the last chunk down to the second, a chunk  *)
(* whose first character is below the last character of the chunk before   *)
(* it is merged into that chunk, and both characters are dropped.          *)
RECURSIVE remove_empty_ranges(_, _)
remove_empty_ranges(cs, k) ==
    IF k < 2 THEN cs
    ELSE LET prev == cs[k - 1]
             cur == cs[k]
         IN  IF Ord(prev[Len(prev)]) > Ord(cur[1])
             THEN remove_empty_ranges(
                      SubSeq(cs, 1, k - 2)
                          \o <<SubSeq(prev, 1, Len(prev) - 1) \o Tail(cur)>>
                          \o SubSeq(cs, k + 1, Len(cs)),
                      k - 1)
             ELSE remove_empty_ranges(cs, k - 1)

(* Whether the character c matches the expression '[' stuff ']'.  What is  *)
(* left of stuff after the empty ranges are removed is negated when it     *)
(* begins with '!'; the chunks are joined by range hyphens, and a hyphen   *)
(* that comes first in the set (after the '!') is a member, not a range.   *)
(* Every character inside a chunk is a member.  An empty set matches       *)
(* nothing, a negated empty set any character.                             *)
bracket_matches(c, stuff) ==
    LET start == IF stuff[1] = "!" THEN 3 ELSE 2
        cs == LET all == chunks(stuff, 1, start)
              IN  remove_empty_ranges(all, Len(all))
        negated == cs[1] # <<>> /\ cs[1][1] = "!"
        first == IF negated THEN Tail(cs[1]) ELSE cs[1]
        member == \/ c \in Range(first)
                  \/ \E k \in 2..Len(cs) : c \in Range(cs[k])
                  \/ \E k \in 1..(Len(cs) - 1) :
                        IF k = 1 /\ first = <<>>
                        THEN c = "-"
                        ELSE /\ Ord(cs[k][Len(cs[k])]) <= Ord(c)
                             /\ Ord(c) <= Ord(cs[k + 1][1])
    IN  negated # member

RECURSIVE fnmatchcase(_, _)
fnmatchcase(name, pat) ==
    IF pat = <<>> THEN name = <<>>
    ELSE IF Head(pat) = "*"
         THEN \/ fnmatchcase(name, Tail(pat))
              \/ name # <<>> /\ fnmatchcase(Tail(name), pat)
    ELSE IF Head(pat) = "[" /\ bracket_end(Tail(pat)) # 0
         THEN LET j == bracket_end(Tail(pat))
              IN  /\ name # <<>>
                  /\ bracket_matches(Head(name), SubSeq(Tail(pat), 1, j - 1))
                  /\ fnmatchcase(Tail(name),
                                 SubSeq(Tail(pat), j + 1, Len(Tail(pat))))
    ELSE /\ name # <<>>
         /\ Head(pat) = "?" \/ Head(pat) = Head(name)
         /\ fnmatchcase(Tail(name), Tail(pat))

-----------------------------------------------------------------------------
(* Paths.                                                                  *)

ROOT == <<>>

\* Path.parent
Parent(p) == SubSeq(p, 1, Len(p) - 1)

\* Path.name of a path under ROOT; of ROOT, the last part of its location,
\* and the empty string when the location is the anchor "/" alone
Name(p) ==
    IF p # ROOT THEN p[Len(p)]
    ELSE IF Len(cfg.ROOT) <= 1 THEN <<>>
    ELSE cfg.ROOT[Len(cfg.ROOT)]

\* str(Path(*parts)): the parts joined by the separator; Path() prints "."
PathStr(parts) == IF parts = <<>> THEN <<".">> ELSE Join(parts, "/")

\* path.relative_to(ROOT).as_posix()
RelPosix(p) == PathStr(p)

\* is q at or below p
IsUnder(q, p) == Len(p) <= Len(q) /\ SubSeq(q, 1, Len(p)) = p

\* path_matches_excludes (app.py 43-59)
path_matches_excludes(path) ==
    LET parts == path
    IN  \E i \in 0..Len(parts) :
            LET sub == SubSeq(parts, 1, i)
                segs == IF i = 0 THEN <<>> ELSE <<parts[i]>>
                rel_posix == Replace(PathStr(sub), "\\", "/")
                candidates ==
                    (IF segs # <<>> THEN {segs[1]} ELSE {})
                    \cup (IF rel_posix # <<>> THEN {rel_posix} ELSE {})
            IN  \E pat \in cfg.EXCLUDES :
                    \E c \in candidates : c # <<>> /\ fnmatchcase(c, pat)

\* is_hidden (app.py 61-62): every part of the absolute path is looked at
is_hidden(path) ==
    LET parts == cfg.ROOT \o path
    IN  \E i \in 1..Len(parts) :
            parts[i] # <<".">> /\ StartsWith(parts[i], <<".">>)

\* FileTreeApp.should_skip (app.py 202-207)
should_skip(p) ==
    IF ~cfg.INCLUDE_HIDDEN /\ is_hidden(p) THEN TRUE
    ELSE IF p # ROOT /\ path_matches_excludes(p) THEN TRUE
    ELSE FALSE

-----------------------------------------------------------------------------
(* detect_binary (app.py 64-70).  bytes.translate(None, text_chars) deletes *)
(* the bytes of text_chars; what is left is counted.  The comparison        *)
(* len(nontext) > len(sample) * 0.30 is made in floating point; for every   *)
(* sample of at most 8192 bytes it agrees with 10 * nontext > 3 * len.      *)

text_chars == {7, 8, 9, 10, 12, 13, 27} \cup (32..255)

\* a detect_binary whose threshold is reached at 30% already
detect_binary_from30(sample) ==
    IF 0 \in Range(sample) THEN TRUE
    ELSE LET nontext == SelectSeq(sample, LAMBDA b : b \notin text_chars)
         IN  10 * Len(nontext) >= 3 * Len(sample)

detect_binary(sample) ==
    IF 0 \in Range(sample) THEN TRUE
    ELSE LET nontext == SelectSeq(sample, LAMBDA b : b \notin text_chars)
         IN  10 * Len(nontext) > 3 * Len(sample)

-----------------------------------------------------------------------------
(* code_lang_for (app.py 72-83).                                           *)

\* PurePath.suffix: from the last dot of the name on, unless that dot is the
\* first or the last character of the name
Suffix(name) ==
    LET dots == {i \in 1..Len(name) : name[i] = "."}
        i == IF dots = {} THEN 0 ELSE CHOOSE d \in dots : \A e \in dots : e <= d
    IN  IF 1 < i /\ i < Len(name) THEN SubSeq(name, i, Len(name)) ELSE <<>>

EXT_LANG ==
    { <<<<".", "p", "y">>, <<"p", "y", "t", "h", "o", "n">>>>,
      <<<<".", "j", "s">>, <<"j", "a", "v", "a", "s", "c", "r", "i", "p", "t">>>>,
      <<<<".", "t", "s">>, <<"t", "y", "p", "e", "s", "c", "r", "i", "p", "t">>>>,
      <<<<".", "j", "s", "o", "n">>, <<"j", "s", "o", "n">>>>,
      <<<<".", "y", "m", "l">>, <<"y", "a", "m", "l">>>>,
      <<<<".", "y", "a", "m", "l">>, <<"y", "a", "m", "l">>>>,
      <<<<".", "t", "o", "m", "l">>, <<"t", "o", "m", "l">>>>,
      <<<<".", "i", "n", "i">>, <<"i", "n", "i">>>>,
      <<<<".", "s", "h">>, <<"b", "a", "s", "h">>>>,
      <<<<".", "m", "d">>, <<"m", "a", "r", "k", "d", "o", "w", "n">>>>,
      <<<<".", "h", "t", "m", "l">>, <<"h", "t", "m", "l">>>>,
      <<<<".", "c", "s", "s">>, <<"c", "s", "s">>>>,
      <<<<".", "g", "o">>, <<"g", "o">>>>,
      <<<<".", "r", "s">>, <<"r", "u", "s", "t">>>>,
      <<<<".", "j", "a", "v", "a">>, <<"j", "a", "v", "a">>>>,
      <<<<".", "c">>, <<"c">>>>,
      <<<<".", "h">>, <<"c">>>>,
      <<<<".", "c", "p", "p">>, <<"c", "p", "p">>>>,
      <<<<".", "h", "p", "p">>, <<"c", "p", "p">>>>,
      <<<<".", "r", "b">>, <<"r", "u", "b", "y">>>>,
      <<<<".", "p", "h", "p">>, <<"p", "h", "p">>>> }

\* EXT_LANG.get(path.suffix.lower(), "")
code_lang_for(path) ==
    LET key == Lower(Suffix(Name(path)))
        hit == {e \in EXT_LANG : e[1] = key}
    IN  IF hit = {} THEN <<>> ELSE (CHOOSE e \in hit : TRUE)[2]

-----------------------------------------------------------------------------
(* bytes.decode("utf-8"), falling back to errors="replace" (app.py 401-405). *)
(* A well-formed sequence of one to four bytes is one code point: shortest  *)
(* forms only, no surrogates, nothing above U+10FFFF.  With                 *)
(* errors="replace" every maximal run of bytes that begins a well-formed    *)
(* sequence without completing it, and every byte that begins none, is      *)
(* replaced by one U+FFFD.  A valid input decodes the same way in both      *)
(* modes, so one operator models both.                                      *)

REPLACEMENT_CHAR == 65533

\* the number of bytes of the sequence a lead byte announces: 0 for a
\* byte that begins none (a continuation byte, the overlong leads 0xC0
\* and 0xC1, and 0xF5..0xFF)
utf8_length(b1) ==
    IF b1 < 128 THEN 1
    ELSE IF b1 \in 194..223 THEN 2
    ELSE IF b1 \in 224..239 THEN 3
    ELSE IF b1 \in 240..244 THEN 4
    ELSE 0

\* the second bytes a lead byte admits: narrower after 0xE0 and 0xF0 (no
\* overlong forms), 0xED (no surrogates) and 0xF4 (nothing above U+10FFFF)
utf8_second(b1) ==
    IF b1 = 224 THEN 160..191
    ELSE IF b1 = 237 THEN 128..159
    ELSE IF b1 = 240 THEN 144..191
    ELSE IF b1 = 244 THEN 128..143
    ELSE 128..191

\* how many bytes at the head of b begin a well-formed sequence of n bytes
utf8_prefix(b, n) ==
    IF n < 2 \/ Len(b) < 2 \/ b[2] \notin utf8_second(b[1]) THEN 1
    ELSE IF n < 3 \/ Len(b) < 3 \/ b[3] \notin 128..191 THEN 2
    ELSE IF n < 4 \/ Len(b) < 4 \/ b[4] \notin 128..191 THEN 3
    ELSE 4

\* the code point a well-formed sequence encodes
utf8_scalar(q) ==
    IF Len(q) = 1 THEN q[1]
    ELSE IF Len(q) = 2 THEN (q[1] - 192) * 64 + (q[2] - 128)
    ELSE IF Len(q) = 3
         THEN (q[1] - 224) * 4096 + (q[2] - 128) * 64 + (q[3] - 128)
    ELSE (q[1] - 240) * 262144 + (q[2] - 128) * 4096 + (q[3] - 128) * 64
             + (q[4] - 128)

\* the decoder, sequence by sequence from the left: a well-formed sequence
\* gives its code point; a byte that begins none, and the bytes of a
\* sequence that breaks off (at the end of the input or before a byte that
\* cannot continue it), give one U+FFFD
RECURSIVE decode_units(_)
decode_units(b) ==
    IF b = <<>> THEN <<>>
    ELSE LET n == utf8_length(b[1])
             k == utf8_prefix(b, n)
         IN  IF n > 0 /\ k = n
             THEN <<utf8_scalar(SubSeq(b, 1, n))>>
                      \o decode_units(SubSeq(b, n + 1, Len(b)))
             ELSE <<REPLACEMENT_CHAR>>
                      \o decode_units(SubSeq(b, k + 1, Len(b)))

\* the first position from i on that holds no continuation byte
RECURSIVE next_start(_, _)
next_start(b, i) ==
    IF i > Len(b) \/ b[i] \notin 128..191 THEN i ELSE next_start(b, i + 1)

\* content.decode("utf-8"), and content.decode("utf-8", errors="replace")
\* when that raises (app.py 401-405).  A long input is cut in two before a
\* byte that is no continuation byte, where a sequence always begins, so
\* that the decoding costs few nested calls.
RECURSIVE decode_utf8(_)
decode_utf8(b) ==
    IF Len(b) <= 4 THEN decode_units(b)
    ELSE LET cut == next_start(b, Len(b) \div 2 + 1) - 1
         IN  IF cut = Len(b) THEN decode_units(b)
             ELSE decode_utf8(SubSeq(b, 1, cut))
                      \o decode_utf8(SubSeq(b, cut + 1, Len(b)))

\* str.rstrip("\n"), halving the text so that a long run of trailing
\* newlines costs few recursive calls
RECURSIVE rstrip_newlines(_)
rstrip_newlines(text) ==
    IF text = <<>> \/ text[Len(text)] # 10 THEN text
    ELSE LET m == Len(text) \div 2
         IN  IF \A i \in (m + 1)..Len(text) : text[i] = 10
             THEN rstrip_newlines(SubSeq(text, 1, m))
             ELSE SubSeq(text, 1, m)
                      \o rstrip_newlines(SubSeq(text, m + 1, Len(text)))

-----------------------------------------------------------------------------
(* The lines of the document.  build_markdown collects strings in a list    *)
(* and joins them with newlines; a line is modelled by the pieces its       *)
(* f-string is formatted from.                                              *)
(*   kind    which statement appended the line                              *)
(*   prefix  tree line: the indentation, one unit per ancestor level        *)
(*   branch  tree line: the connector                                       *)
(*   check   tree line: the selection glyph                                 *)
(*   name    the name, root-relative path, language tag or message          *)
(*   text    content line: the code points between the fences               *)
(*   num     truncation notice: the byte limit it names                     *)

Line(kind, name) ==
    [kind |-> kind, prefix |-> <<>>, branch |-> "", check |-> "",
     name |-> name, text |-> <<>>, num |-> 0]

ICON_SELECTED == "U+25C9"
ICON_UNSELECTED == "U+25EF"
BRANCH_LAST == "U+2514 U+2500 U+2500 SPACE"
BRANCH_MID == "U+251C U+2500 U+2500 SPACE"
INDENT_LAST == "SPACE SPACE SPACE SPACE"
INDENT_MID == "U+2502 SPACE SPACE SPACE"

TreeLine(prefix, branch, check, name) ==
    [Line("tree", name) EXCEPT !.prefix = prefix, !.branch = branch,
                               !.check = check]

-----------------------------------------------------------------------------
(* Reading one file (app.py 385-413).                                       *)

SAMPLE_BYTES == 8192

\* fh.read(n) at offset pos of a file holding data: at most n bytes,
\* everything that is left when n is -1, and a ValueError ("read length
\* must be non-negative or -1") when n is below -1
read(data, pos, n) ==
    [raised |-> n < -1,
     bytes |-> IF n < -1 THEN <<>>
               ELSE IF n = -1 THEN SubSeq(data, pos + 1, Len(data))
               ELSE SubSeq(data, pos + 1, Min(pos + n, Len(data)))]

\* content[:n]: the first n bytes, and all but the last -n when n is
\* negative
slice_to(content, n) ==
    IF n >= 0 THEN SubSeq(content, 1, Min(n, Len(content)))
    ELSE IF Len(content) + n > 0 THEN SubSeq(content, 1, Len(content) + n)
    ELSE <<>>

\* an embed_file that reports truncation at the limit already
embed_file_at_limit(path, data) ==
    LET sample == read(data, 0, Min(cfg.MAX_BYTES + 1, SAMPLE_BYTES)).bytes
        rest == read(data, Len(sample),
                     cfg.MAX_BYTES + 1 - Len(sample)).bytes
        content0 == sample \o rest
        truncated == Len(content0) >= cfg.MAX_BYTES
        content == IF truncated THEN slice_to(content0, cfg.MAX_BYTES)
                   ELSE content0
        body == [Line("content", <<>>) EXCEPT
                     !.text = rstrip_newlines(decode_utf8(content))]
        notice == [Line("truncated", <<>>) EXCEPT !.num = cfg.MAX_BYTES]
    IN  IF detect_binary(sample) /\ ~cfg.READ_BINARY
        THEN [lines |-> <<Line("binary", <<>>)>>, nread |-> Len(sample)]
        ELSE [lines |-> <<Line("fence", code_lang_for(path)), body,
                          Line("fence_end", <<>>)>>
                            \o (IF truncated THEN <<notice>> ELSE <<>>),
              nread |-> Len(sample) + Len(rest)]

\* the body of the with block (app.py 386-411) for an opened file, with
\* the except clause (app.py 412-413) for a read that raises: the lines
\* appended, and the number of bytes read from the file
embed_file(path, data) ==
    LET first == read(data, 0, Min(cfg.MAX_BYTES + 1, SAMPLE_BYTES))
        sample == first.bytes
        bin_file == detect_binary(sample)
    IN  IF first.raised
        THEN [lines |-> <<Line("error", <<>>)>>, nread |-> 0]
        ELSE IF bin_file /\ ~cfg.READ_BINARY
        THEN [lines |-> <<Line("binary", <<>>)>>, nread |-> Len(sample)]
        ELSE
        LET second == IF Len(sample) <= SAMPLE_BYTES
                      THEN read(data, Len(sample),
                                cfg.MAX_BYTES + 1 - Len(sample))
                      ELSE [raised |-> FALSE, bytes |-> <<>>]
            rest == second.bytes
            content0 == sample \o rest
            truncated == Len(content0) > cfg.MAX_BYTES
            content == IF truncated
                       THEN slice_to(content0, cfg.MAX_BYTES)
                       ELSE content0
            text == decode_utf8(content)
            fence == Line("fence", code_lang_for(path))
            body == [Line("content", <<>>) EXCEPT
                         !.text = rstrip_newlines(text)]
            notice == [Line("truncated", <<>>) EXCEPT !.num = cfg.MAX_BYTES]
        IN  IF second.raised
            THEN [lines |-> <<Line("error", <<>>)>>, nread |-> Len(sample)]
            ELSE [lines |-> <<fence, body, Line("fence_end", <<>>)>>
                              \o (IF truncated THEN <<notice>> ELSE <<>>),
                  nread |-> Len(sample) + Len(rest)]

-----------------------------------------------------------------------------
(* The filesystem under ROOT: a fixed universe of paths, each of one kind.  *)

n_src == <<"s", "r", "c">>
n_a_go == <<"a", ".", "g", "o">>
n_b_bin == <<"b", ".", "b", "i", "n">>
n_lib == <<"l", "i", "b">>
n_x_py == <<"x", ".", "p", "y">>
n_git == <<".", "g", "i", "t">>
n_config == <<"c", "o", "n", "f", "i", "g">>

P_src == <<n_src>>
P_a_go == <<n_src, n_a_go>>
P_b_bin == <<n_src, n_b_bin>>
P_lib == <<n_src, n_lib>>
P_x_py == <<n_src, n_lib, n_x_py>>
P_git == <<n_git>>
P_config == <<n_git, n_config>>

Paths == {ROOT, P_src, P_a_go, P_b_bin, P_lib, P_x_py, P_git, P_config}

DirPaths == {ROOT, P_src, P_lib, P_git}

\* the bytes of each file: 'fmt.Println(1)\n', 00 01 02, 'é=1\n\n',
\* '[core]\n'
FileData(p) ==
    CASE p = P_a_go ->
             <<102, 109, 116, 46, 80, 114, 105, 110, 116, 108, 110, 40, 49,
               41, 10>>
      [] p = P_b_bin -> <<0, 1, 2>>
      [] p = P_x_py -> <<195, 169, 61, 49, 10, 10>>
      [] p = P_config -> <<91, 99, 111, 114, 101, 93, 10>>
      [] OTHER -> <<>>

\* Path.is_dir()
is_dir(p) == p \in exists /\ p \in DirPaths

\* does listing dir_path succeed (otherwise iterdir raises)
CanList(dir_path) == is_dir(dir_path) /\ dir_path \notin unreadable

\* does open(path, "rb") succeed
CanOpen(path) ==
    path \in exists /\ path \notin DirPaths /\ path \notin unreadable

UniverseChildren(d) == {p \in Paths : p # ROOT /\ Parent(p) = d}

Perms(S) == {s \in [1..Cardinality(S) -> S] : Range(s) = S}

\* The order in which the filesystem lists each directory is arbitrary: an
\* order assigns to each directory a permutation of its possible entries.
RECURSIVE OrdersOver(_)
OrdersOver(dirs) ==
    IF dirs = {} THEN {<<>>}
    ELSE LET d == CHOOSE x \in dirs : TRUE
         IN  {[x \in DOMAIN o \cup {d} |-> IF x = d THEN perm ELSE o[x]] :
                  o \in OrdersOver(dirs \ {d}),
                  perm \in Perms(UniverseChildren(d))}

Orders == OrdersOver(DirPaths)

\* what listing each directory yields now, one function per order
Listings ==
    {[d \in DirPaths |-> SelectSeq(o[d], LAMBDA q : q \in exists)] :
         o \in Orders}

\* what listing the one directory d can yield now
ListingsOf(d) == {o[d] : o \in Listings}

\* list(dir_path.iterdir()) under the listings o (CanList(dir_path) holds)
iterdir(o, dir_path) == o[dir_path]

\* the sort key (not x.is_dir(), x.name.lower()), compared as Python
\* compares tuples (False < True)
KeyLess(x, y) ==
    LET kx == ~is_dir(x)
        ky == ~is_dir(y)
    IN  \/ ~kx /\ ky
        \/ kx = ky /\ StrLess(Lower(Name(x)), Lower(Name(y)))

\* sorted(entries, key=...): stable, an entry goes after the entries whose
\* key is not greater
RECURSIVE sorted(_)
sorted(entries) ==
    IF entries = <<>> THEN <<>>
    ELSE LET front == sorted(SubSeq(entries, 1, Len(entries) - 1))
             x == entries[Len(entries)]
             after == {i \in 1..Len(front) : KeyLess(x, front[i])}
             k == IF after = {} THEN Len(front) + 1
                  ELSE CHOOSE i \in after : \A j \in after : i <= j
         IN  SubSeq(front, 1, k - 1) \o <<x>> \o SubSeq(front, k, Len(front))

-----------------------------------------------------------------------------
(* The tree of nodes (app.py 87-92, 185-188, 209-258).                      *)

\* NodeData.__init__
NodeData(path, selected) ==
    [path |-> path, selected |-> selected, is_dir |-> is_dir(path)]

\* the nodes listed so far, after populate_children has run on node: the
\* call takes the listing of the node's directory unless iterdir fails
Listed(so_far, node) ==
    IF CanList(node) THEN so_far \cup {node} ELSE so_far

\* the tree is passed around as the pair of node_index and children
Tree(ni, ch) == [ni |-> ni, ch |-> ch]

\* a populate_children that leaves the children with the default of
\* NodeData, selected
populate_children_default(listing, t, node) ==
    IF ~CanList(node) THEN t
    ELSE LET entries == sorted(listing)
             kept == SelectSeq(entries, LAMBDA c : ~should_skip(c))
             new == Range(kept)
         IN  Tree([p \in DOMAIN t.ni \cup new |->
                      IF p \in new THEN NodeData(p, TRUE) ELSE t.ni[p]],
                  [p \in DOMAIN t.ch \cup new |->
                      IF p = node THEN t.ch[node] \o kept
                      ELSE IF p \in new THEN <<>>
                      ELSE t.ch[p]])

\* FileTreeApp.populate_children(node, path) with path = node.data.path,
\* where listing is what path.iterdir() yields when it succeeds
populate_children(listing, t, node) ==
    IF ~CanList(node) THEN t
    ELSE LET entries == sorted(listing)
             kept == SelectSeq(entries, LAMBDA c : ~should_skip(c))
             new == Range(kept)
             sel == t.ni[node].selected
         IN  Tree([p \in DOMAIN t.ni \cup new |->
                      IF p \in new THEN NodeData(p, sel) ELSE t.ni[p]],
                  [p \in DOMAIN t.ch \cup new |->
                      IF p = node THEN t.ch[node] \o kept
                      ELSE IF p \in new THEN <<>>
                      ELSE t.ch[p]])

\* a set_node_selected that takes the siblings of the node and what is
\* below them along
set_node_selected_family(ni, ch, node, selected) ==
    [p \in DOMAIN ni |->
        IF \/ IsUnder(p, node)
           \/ node # ROOT /\ p # Parent(node) /\ IsUnder(p, Parent(node))
        THEN [ni[p] EXCEPT !.selected = selected]
        ELSE ni[p]]

\* a set_node_selected that stops at the node's own children
set_node_selected_shallow(ni, ch, node, selected) ==
    [p \in DOMAIN ni |->
        IF p = node \/ p \in Range(ch[node])
        THEN [ni[p] EXCEPT !.selected = selected]
        ELSE ni[p]]

\* FileTreeApp.set_node_selected(node, selected): the node, then each loaded
\* child in turn, recursively; ch is TreeNode.children
RECURSIVE set_node_selected(_, _, _, _)
RECURSIVE set_children_selected(_, _, _, _)
set_node_selected(ni, ch, node, selected) ==
    set_children_selected([ni EXCEPT ![node].selected = selected], ch,
                          ch[node], selected)

set_children_selected(ni, ch, kids, selected) ==
    IF kids = <<>> THEN ni
    ELSE set_children_selected(set_node_selected(ni, ch, Head(kids), selected),
                               ch, Tail(kids), selected)

\* an update_parent_selection that looks at the parent of the node and at
\* no ancestor above it
update_parent_selection_once(ni, ch, cur) ==
    IF cur = ROOT THEN ni
    ELSE LET parent == Parent(cur)
             kids == Range(ch[parent])
             all_selected == \A k \in kids : ni[k].selected
             all_unselected == \A k \in kids : ~ni[k].selected
         IN  IF ch[parent] # <<>> /\ (all_selected \/ all_unselected)
             THEN [ni EXCEPT ![parent].selected = all_selected]
             ELSE ni

\* an update_parent_selection that unselects a parent whose children differ
RECURSIVE update_parent_selection_any(_, _, _)
update_parent_selection_any(ni, ch, cur) ==
    IF cur = ROOT THEN ni
    ELSE LET parent == Parent(cur)
             kids == Range(ch[parent])
             all_selected == \A k \in kids : ni[k].selected
         IN  IF ch[parent] # <<>>
             THEN update_parent_selection_any(
                      [ni EXCEPT ![parent].selected = all_selected], ch,
                      parent)
             ELSE ni

\* FileTreeApp.update_parent_selection(node): the loop, one parent per call
RECURSIVE update_parent_selection(_, _, _)
update_parent_selection(ni, ch, cur) ==
    IF cur = ROOT THEN ni
    ELSE LET parent == Parent(cur)
             kids == Range(ch[parent])
             all_selected == \A k \in kids : ni[k].selected
             all_unselected == \A k \in kids : ~ni[k].selected
         IN  IF ch[parent] # <<>> /\ (all_selected \/ all_unselected)
             THEN update_parent_selection(
                      [ni EXCEPT ![parent].selected = all_selected], ch,
                      parent)
             ELSE ni

\* FileTreeApp.find_node_by_path: node_index.get(path)
find_node_by_path(ni, path) == IF path \in DOMAIN ni THEN {ni[path]} ELSE {}

\* an is_selected_effective that asks the root for every path without a node
is_selected_effective_root(ni, path) ==
    IF path \in DOMAIN ni THEN ni[path].selected
    ELSE IF ROOT \in DOMAIN ni THEN ni[ROOT].selected
    ELSE TRUE

\* FileTreeApp.is_selected_effective(path): the nearest indexed node on the
\* way up decides; past ROOT the answer is True
RECURSIVE is_selected_effective(_, _)
is_selected_effective(ni, path) ==
    LET node == find_node_by_path(ni, path)
    IN  IF node # {} THEN (CHOOSE n \in node : TRUE).selected
        ELSE IF path = ROOT THEN TRUE
        ELSE is_selected_effective(ni, Parent(path))

\* the values cur takes in the loop of is_selected_effective(path), in
\* order: the loop ends at the first one that has a node, or at ROOT
RECURSIVE effective_walk(_, _)
effective_walk(ni, cur) ==
    IF find_node_by_path(ni, cur) # {} THEN <<cur>>
    ELSE IF cur = ROOT THEN <<cur>>
    ELSE <<cur>> \o effective_walk(ni, Parent(cur))

-----------------------------------------------------------------------------
(* build_markdown (app.py 346-428), under listing order o, on the index ni. *)

\* tree_lines(dir_path, prefix, is_last) (app.py 351-370); tree_entries is
\* its for loop from entry idx on
RECURSIVE tree_lines(_, _, _, _, _, _)
RECURSIVE tree_entries(_, _, _, _, _, _)
RECURSIVE tree_entries_pruned(_, _, _, _, _, _)
RECURSIVE tree_entries_blank(_, _, _, _, _, _)

\* a tree_lines loop that does not descend into a directory it did not list
tree_entries_pruned(o, ni, include_unselected, entries, idx, prefix) ==
    IF idx > Len(entries) THEN <<>>
    ELSE LET p == entries[idx]
             lastone == idx = Len(entries)
             sel == is_selected_effective(ni, p)
             branch == IF lastone THEN BRANCH_LAST ELSE BRANCH_MID
             check == IF sel THEN ICON_SELECTED ELSE ICON_UNSELECTED
             new_prefix == prefix \o
                 <<IF lastone THEN INDENT_LAST ELSE INDENT_MID>>
         IN  (IF include_unselected \/ sel
              THEN <<TreeLine(prefix, branch, check, Name(p))>>
                       \o (IF is_dir(p)
                           THEN tree_lines(o, ni, include_unselected, p,
                                           new_prefix, lastone)
                           ELSE <<>>)
              ELSE <<>>)
                 \o tree_entries_pruned(o, ni, include_unselected, entries,
                                        idx + 1, prefix)

\* a tree_lines loop that indents what is below an entry with blanks, be
\* the entry the last of its directory or not
tree_entries_blank(o, ni, include_unselected, entries, idx, prefix) ==
    IF idx > Len(entries) THEN <<>>
    ELSE LET p == entries[idx]
             lastone == idx = Len(entries)
             sel == is_selected_effective(ni, p)
             branch == IF lastone THEN BRANCH_LAST ELSE BRANCH_MID
             check == IF sel THEN ICON_SELECTED ELSE ICON_UNSELECTED
             line == IF include_unselected \/ sel
                     THEN <<TreeLine(prefix, branch, check, Name(p))>>
                     ELSE <<>>
             below == IF is_dir(p)
                      THEN tree_lines(o, ni, include_unselected, p,
                                      prefix \o <<INDENT_LAST>>, lastone)
                      ELSE <<>>
         IN  line \o below
                 \o tree_entries_blank(o, ni, include_unselected, entries,
                                       idx + 1, prefix)

tree_lines(o, ni, include_unselected, dir_path, prefix, is_last) ==
    IF ~CanList(dir_path) THEN <<>>
    ELSE LET listed == SelectSeq(iterdir(o, dir_path),
                                 LAMBDA p : ~should_skip(p))
         IN  tree_entries(o, ni, include_unselected, sorted(listed), 1, prefix)

tree_entries(o, ni, include_unselected, entries, idx, prefix) ==
    IF idx > Len(entries) THEN <<>>
    ELSE LET p == entries[idx]
             lastone == idx = Len(entries)
             sel == is_selected_effective(ni, p)
             branch == IF lastone THEN BRANCH_LAST ELSE BRANCH_MID
             check == IF sel THEN ICON_SELECTED ELSE ICON_UNSELECTED
             line == IF include_unselected \/ sel
                     THEN <<TreeLine(prefix, branch, check, Name(p))>>
                     ELSE <<>>
             new_prefix == prefix \o
                 <<IF lastone THEN INDENT_LAST ELSE INDENT_MID>>
             below == IF is_dir(p)
                      THEN tree_lines(o, ni, include_unselected, p,
                                      new_prefix, lastone)
                      ELSE <<>>
         IN  line \o below
                 \o tree_entries(o, ni, include_unselected, entries, idx + 1,
                                 prefix)

\* an iter_files loop that forgets should_skip
RECURSIVE iter_entries_unfiltered(_, _)
iter_entries_unfiltered(o, entries) ==
    IF entries = <<>> THEN <<>>
    ELSE LET p == Head(entries)
         IN  (IF is_dir(p) /\ CanList(p)
              THEN iter_entries_unfiltered(o, iterdir(o, p))
              ELSE IF is_dir(p) THEN <<>>
              ELSE <<p>>)
                 \o iter_entries_unfiltered(o, Tail(entries))

\* iter_files(start) (app.py 417-428): the paths the generator yields;
\* iter_entries is its for loop
RECURSIVE iter_files(_, _)
RECURSIVE iter_entries(_, _)
iter_files(o, start) ==
    IF ~CanList(start) THEN <<>>
    ELSE iter_entries(o, iterdir(o, start))

iter_entries(o, entries) ==
    IF entries = <<>> THEN <<>>
    ELSE LET p == Head(entries)
         IN  (IF should_skip(p) THEN <<>>
              ELSE IF is_dir(p) THEN iter_files(o, p)
              ELSE <<p>>)
                 \o iter_entries(o, Tail(entries))

\* a Contents loop body that says nothing of a file it could not open
contents_of_silent(ni, path) ==
    IF ~is_selected_effective(ni, path) THEN <<>>
    ELSE IF is_dir(path) THEN <<>>
    ELSE <<Line("header", RelPosix(path))>>
             \o (IF CanOpen(path)
                 THEN embed_file(path, FileData(path)).lines
                 ELSE <<>>)

\* the body of the Contents loop for one yielded path (app.py 379-413)
contents_of(ni, path) ==
    IF ~is_selected_effective(ni, path) THEN <<>>
    ELSE IF is_dir(path) THEN <<>>
    ELSE <<Line("header", RelPosix(path))>>
             \o (IF CanOpen(path)
                 THEN embed_file(path, FileData(path)).lines
                 ELSE <<Line("error", <<>>)>>)

RECURSIVE contents_lines(_, _)
contents_lines(ni, files) ==
    IF files = <<>> THEN <<>>
    ELSE contents_of(ni, Head(files)) \o contents_lines(ni, Tail(files))

build_markdown(o, ni, include_unselected) ==
    <<Line("title", Name(ROOT)), Line("rootname", Name(ROOT))>>
        \o tree_lines(o, ni, include_unselected, ROOT, <<>>, TRUE)
        \o <<Line("rule", <<>>), Line("heading", <<>>)>>
        \o contents_lines(ni, iter_files(o, ROOT))

-----------------------------------------------------------------------------
(* Bounds and inputs.                                                       *)

\* filesystem changes made behind the running app
MaxDiskEvents == 2

n_slash == <<"/">>
n_home == <<"h", "o", "m", "e">>
n_proj == <<"p", "r", "o", "j">>
n_dotcfg == <<".", "c", "f", "g">>

\* EXCLUDES=.git and the defaults of app.py 21-23
GitConfig ==
    [EXCLUDES |-> {n_git}, INCLUDE_HIDDEN |-> TRUE, MAX_BYTES |-> 300000,
     READ_BINARY |-> FALSE, ROOT |-> <<n_slash, n_home, n_proj>>]

\* INCLUDE_HIDDEN=0 EXCLUDES=src/lib MAX_BYTES=4 READ_BINARY=1
TightConfig ==
    [EXCLUDES |-> {Join(P_lib, "/")}, INCLUDE_HIDDEN |-> FALSE, MAX_BYTES |-> 4,
     READ_BINARY |-> TRUE, ROOT |-> <<n_slash, n_home, n_proj>>]

AppConfigs == {GitConfig, TightConfig}

\* the tree of the specification's example, and the whole universe
ExampleSnapshot == {ROOT, P_src, P_a_go, P_b_bin, P_git, P_config}

Snapshots == {ExampleSnapshot, Paths}

-----------------------------------------------------------------------------
(* The application.                                                         *)

Done(op, node) == last' = [op |-> op, node |-> node]

\* FileTreeApp.compose (app.py 180-190) has run: the root node is indexed
Init ==
    /\ cfg \in AppConfigs
    /\ exists \in Snapshots
    /\ unreadable = {}
    /\ disk_events = 0
    /\ node_index = [p \in {ROOT} |-> NodeData(ROOT, TRUE)]
    /\ children = [p \in {ROOT} |-> <<>>]
    /\ populated = {}
    /\ phase = "composed"
    /\ doc = <<>>
    /\ last = [op |-> "compose", node |-> ROOT]
    /\ arg = <<>>
    /\ res = <<>>
    /\ pc = "app"

\* on_mount (app.py 195-200)
on_mount ==
    /\ phase = "composed"
    /\ \E t \in {populate_children(listing, Tree(node_index, children), ROOT) :
                   listing \in ListingsOf(ROOT)} :
           node_index' = t.ni /\ children' = t.ch
    /\ populated' = Listed({}, ROOT)
    /\ phase' = "running"
    /\ Done("mount", ROOT)
    /\ UNCHANGED <<cfg, exists, unreadable, disk_events, doc, arg, res, pc>>

\* on_tree_node_expanded (app.py 224-228), for a node that allows expansion
on_tree_node_expanded ==
    /\ phase = "running"
    /\ \E node \in DOMAIN node_index :
           /\ node = ROOT \/ node_index[node].is_dir
           /\ \E t \in IF children[node] = <<>>
                        THEN {populate_children(
                                  listing, Tree(node_index, children), node) :
                                  listing \in ListingsOf(node)}
                        ELSE {Tree(node_index, children)} :
                  node_index' = t.ni /\ children' = t.ch
           /\ populated' = IF children[node] = <<>>
                            THEN Listed(populated, node)
                            ELSE populated
           /\ Done("expand", node)
    /\ UNCHANGED <<cfg, exists, unreadable, disk_events, phase, doc, arg,
                   res, pc>>

\* the body shared by on_tree_node_selected and action_toggle
Toggled(node) ==
    update_parent_selection(
        set_node_selected(node_index, children, node,
                          ~node_index[node].selected),
        children, node)

\* on_tree_node_selected (app.py 271-280): a click on a row
on_tree_node_selected ==
    /\ phase = "running"
    /\ \E node \in DOMAIN node_index :
           /\ node_index' = Toggled(node)
           /\ Done("toggle", node)
    /\ UNCHANGED <<cfg, exists, unreadable, disk_events, children, populated,
                   phase, doc, arg, res, pc>>

\* action_toggle (app.py 282-285): the key, on the cursor node
action_toggle ==
    /\ phase = "running"
    /\ \E node \in DOMAIN node_index :
           /\ node_index' = Toggled(node)
           /\ Done("toggle", node)
    /\ UNCHANGED <<cfg, exists, unreadable, disk_events, children, populated,
                   phase, doc, arg, res, pc>>

\* action_select_all (app.py 287-288)
action_select_all ==
    /\ phase = "running"
    /\ node_index' = set_node_selected(node_index, children, ROOT, TRUE)
    /\ Done("select_all", ROOT)
    /\ UNCHANGED <<cfg, exists, unreadable, disk_events, children, populated,
                   phase, doc, arg, res, pc>>

\* action_select_none (app.py 290-291)
action_select_none ==
    /\ phase = "running"
    /\ node_index' = set_node_selected(node_index, children, ROOT, FALSE)
    /\ Done("select_none", ROOT)
    /\ UNCHANGED <<cfg, exists, unreadable, disk_events, children, populated,
                   phase, doc, arg, res, pc>>

\* a refresh that gives the new root the default of NodeData, selected
action_refresh_reselects ==
    /\ phase = "running"
    /\ LET cleared ==
               Tree([p \in {ROOT} |->
                        [node_index[ROOT] EXCEPT !.selected = TRUE]],
                    [p \in {ROOT} |-> <<>>])
       IN  \E t \in {populate_children(listing, cleared, ROOT) :
                      listing \in ListingsOf(ROOT)} :
               node_index' = t.ni /\ children' = t.ch
    /\ populated' = Listed({}, ROOT)
    /\ Done("refresh", ROOT)
    /\ UNCHANGED <<cfg, exists, unreadable, disk_events, phase, doc, arg,
                   res, pc>>

\* action_refresh (app.py 293-303): Tree.clear() keeps the root's data and
\* drops every other node
action_refresh ==
    /\ phase = "running"
    /\ LET root_selected == node_index[ROOT].selected
           cleared ==
               Tree([p \in {ROOT} |->
                        [node_index[ROOT] EXCEPT !.selected = root_selected]],
                    [p \in {ROOT} |-> <<>>])
       IN  \E t \in {populate_children(listing, cleared, ROOT) :
                      listing \in ListingsOf(ROOT)} :
               node_index' = t.ni /\ children' = t.ch
    /\ populated' = Listed({}, ROOT)
    /\ Done("refresh", ROOT)
    /\ UNCHANGED <<cfg, exists, unreadable, disk_events, phase, doc, arg,
                   res, pc>>

\* action_generate (app.py 308-310): the modal dialog is pushed; while it
\* is up no binding of the app runs
action_generate ==
    /\ phase = "running"
    /\ phase' = "dialog"
    /\ Done("ask", ROOT)
    /\ UNCHANGED <<cfg, exists, unreadable, disk_events, node_index,
                   children, populated, doc, arg, res, pc>>

\* _after_dialog(True) and _after_dialog(False) (app.py 312-327): the
\* document is built; when ROOT / OUTPUT_FILE can be written (ROOT allows
\* the creation of a file, OUTPUT_FILE names no directory) it is written and
\* the app exits, otherwise write_text raises, nothing is written, the
\* error is notified and the app runs on
after_dialog_generate ==
    /\ phase = "dialog"
    /\ \E include_unselected \in BOOLEAN, writable \in BOOLEAN :
           IF writable
           THEN /\ doc' \in {build_markdown(o, node_index,
                                            include_unselected) :
                                 o \in Listings}
                /\ Done(IF include_unselected THEN "generate_all"
                        ELSE "generate_selected", ROOT)
                /\ phase' = "exited"
           ELSE /\ doc' = doc
                /\ Done("generate_error", ROOT)
                /\ phase' = "running"
    /\ UNCHANGED <<cfg, exists, unreadable, disk_events, node_index,
                   children, populated, arg, res, pc>>

\* a cancel that builds and writes the document before it returns
after_dialog_cancel_writes ==
    /\ phase = "dialog"
    /\ doc' \in {build_markdown(o, node_index, FALSE) : o \in Listings}
    /\ phase' = "running"
    /\ Done("cancel", ROOT)
    /\ UNCHANGED <<cfg, exists, unreadable, disk_events, node_index,
                   children, populated, arg, res, pc>>

\* _after_dialog(None) (app.py 313-314): the dialog was cancelled
after_dialog_cancel ==
    /\ phase = "dialog"
    /\ phase' = "running"
    /\ Done("cancel", ROOT)
    /\ UNCHANGED <<cfg, exists, unreadable, disk_events, node_index,
                   children, populated, doc, arg, res, pc>>

\* the binding q -> quit (app.py 171) of the tree view: the inherited
\* action_quit ends the app, and no document is written
action_quit ==
    /\ phase = "running"
    /\ phase' = "exited"
    /\ Done("quit", ROOT)
    /\ UNCHANGED <<cfg, exists, unreadable, disk_events, node_index,
                   children, populated, doc, arg, res, pc>>

\* The filesystem changes behind the app: an entry appears in an existing
\* directory, an entry without entries of its own disappears, or the
\* permissions of an entry change.
disk_create ==
    /\ phase # "exited" /\ disk_events < MaxDiskEvents
    /\ \E p \in Paths \ exists :
           /\ is_dir(Parent(p))
           /\ exists' = exists \cup {p}
    /\ disk_events' = disk_events + 1
    /\ Done("disk", ROOT)
    /\ UNCHANGED <<cfg, unreadable, node_index, children, populated, phase,
                   doc, arg, res, pc>>

disk_remove ==
    /\ phase # "exited" /\ disk_events < MaxDiskEvents
    /\ \E p \in exists \ {ROOT} :
           /\ \A q \in exists : q = p \/ ~IsUnder(q, p)
           /\ exists' = exists \ {p}
           /\ unreadable' = unreadable \ {p}
    /\ disk_events' = disk_events + 1
    /\ Done("disk", ROOT)
    /\ UNCHANGED <<cfg, node_index, children, populated, phase, doc, arg, res,
                   pc>>

disk_chmod ==
    /\ phase # "exited" /\ disk_events < MaxDiskEvents
    /\ \E p \in exists :
           unreadable' = IF p \in unreadable THEN unreadable \ {p}
                         ELSE unreadable \cup {p}
    /\ disk_events' = disk_events + 1
    /\ Done("disk", ROOT)
    /\ UNCHANGED <<cfg, exists, node_index, children, populated, phase, doc,
                   arg, res, pc>>

Next ==
    \/ on_mount
    \/ on_tree_node_expanded
    \/ on_tree_node_selected
    \/ action_toggle
    \/ action_select_all
    \/ action_select_none
    \/ action_refresh
    \/ action_generate
    \/ after_dialog_generate
    \/ after_dialog_cancel
    \/ action_quit
    \/ disk_create
    \/ disk_remove
    \/ disk_chmod

Spec == Init /\ [][Next]_vars

-----------------------------------------------------------------------------
(* should_skip on its own: a path of the universe under a configuration     *)
(* drawn from a pool of patterns.                                           *)

MaxPatterns == 2

PatternPool ==
    { n_git,                                    \* .git
      <<"*", ".", "g", "o">>,                    \* *.go
      Join(P_lib, "/"),                          \* src/lib
      <<".", "*">>,                              \* .*
      <<"s", "?", "c">>,                         \* s?c
      <<"s", "r", "c", "/", "*">>,               \* src/*
      <<"[", ".", "]", "g", "i", "t">>,          \* [.]git
      <<"[", "!", ".", "]", "*">>,               \* [!.]*
      <<"[", "r", "-", "t", "]", "r", "c">> }    \* [r-t]rc

SkipConfigs ==
    {[EXCLUDES |-> ex, INCLUDE_HIDDEN |-> h, MAX_BYTES |-> 300000,
      READ_BINARY |-> FALSE, ROOT |-> <<n_slash, n_home, r>>] :
         ex \in {e \in SUBSET PatternPool : Cardinality(e) <= MaxPatterns},
         h \in BOOLEAN, r \in {n_proj, n_dotcfg}}

\* the application's variables, idle while a pure function is run
Idle ==
    /\ exists = {ROOT}
    /\ unreadable = {}
    /\ disk_events = 0
    /\ node_index = <<>>
    /\ children = <<>>
    /\ populated = {}
    /\ phase = "idle"
    /\ doc = <<>>
    /\ last = [op |-> "none", node |-> ROOT]

InitSkip ==
    /\ cfg \in SkipConfigs
    /\ Idle
    /\ arg \in Paths
    /\ res = FALSE
    /\ pc = "call"

call_should_skip ==
    /\ pc = "call"
    /\ res' = should_skip(arg)
    /\ pc' = "done"
    /\ UNCHANGED <<cfg, arg>>
    /\ UNCHANGED appvars

SpecSkip == InitSkip /\ [][call_should_skip]_vars

-----------------------------------------------------------------------------
(* detect_binary on its own: every sample of a few bytes, and samples of    *)
(* k control bytes followed by printable ones, which reach the 30% mark.    *)

MaxSampleLen == 4

MaxRatioLen == 10

SampleBytes == {0, 1, 7, 8, 27, 65}

RECURSIVE SeqsUpTo(_, _)
SeqsUpTo(S, n) ==
    IF n = 0 THEN {<<>>}
    ELSE LET shorter == SeqsUpTo(S, n - 1)
         IN  shorter \cup {Append(q, x) : q \in shorter, x \in S}

RatioSample(n, k) == [i \in 1..n |-> IF i <= k THEN 1 ELSE 65]

Samples ==
    SeqsUpTo(SampleBytes, MaxSampleLen)
        \cup {RatioSample(n, k) : n \in 1..MaxRatioLen, k \in 0..MaxRatioLen}

InitBinary ==
    /\ cfg = GitConfig
    /\ Idle
    /\ arg \in Samples
    /\ res = FALSE
    /\ pc = "call"

call_detect_binary ==
    /\ pc = "call"
    /\ res' = detect_binary(arg)
    /\ pc' = "done"
    /\ UNCHANGED <<cfg, arg>>
    /\ UNCHANGED appvars

SpecBinary == InitBinary /\ [][call_detect_binary]_vars

-----------------------------------------------------------------------------
(* Reading one opened file on its own: every short file under every small   *)
(* limit, and files around the 8192-byte sample under limits around it.     *)
(* MAX_BYTES is int() of an environment variable and may be negative: -1    *)
(* makes the sample read ask for nothing, -2 for everything, and below -2   *)
(* the read raises.                                                         *)

MaxFileLen == 3

MaxLimit == 3

\* NUL, newline, 'A', the two bytes of U+00E9 and the three of U+20AC
FileBytes == {0, 10, 65, 195, 169, 226, 130, 172}

\* a long text file: lines of 'A's, and a newline at its end
LongFile(n) == [i \in 1..n |-> IF i % 100 = 0 \/ i = n THEN 10 ELSE 65]

LongSizes ==
    {SAMPLE_BYTES - 1, SAMPLE_BYTES, SAMPLE_BYTES + 1, SAMPLE_BYTES + 100}

Files ==
    SeqsUpTo(FileBytes, MaxFileLen) \cup {LongFile(n) : n \in LongSizes}

NegativeLimits == {-3, -2, -1}

Limits ==
    NegativeLimits \cup (0..MaxLimit)
        \cup {SAMPLE_BYTES - 1, SAMPLE_BYTES, GitConfig.MAX_BYTES}

InitRead ==
    /\ cfg \in {[GitConfig EXCEPT !.MAX_BYTES = m, !.READ_BINARY = rb] :
                    m \in Limits, rb \in BOOLEAN}
    /\ Idle
    /\ arg \in Files
    /\ res = <<>>
    /\ pc = "call"

call_embed_file ==
    /\ pc = "call"
    /\ res' = embed_file(P_a_go, arg)
    /\ pc' = "done"
    /\ UNCHANGED <<cfg, arg>>
    /\ UNCHANGED appvars

SpecRead == InitRead /\ [][call_embed_file]_vars

-----------------------------------------------------------------------------
(* Properties of the selection tree.                                        *)

Nodes == DOMAIN node_index

Effective(p) == is_selected_effective(node_index, p)

\* C1: right after action_select_all every path under ROOT, with or without
\* a node, is effectively selected; right after action_select_none every
\* path is effectively unselected.
C1_SelectAllNone ==
    /\ last.op = "select_all" => \A p \in Paths : Effective(p)
    /\ last.op = "select_none" => \A p \in Paths : ~Effective(p)

\* select-none has run on a tree whose src/lib has a node and was never
\* expanded: src/lib/x.py exists without a node and is unselected
C1_Witness ==
    /\ last.op = "select_none"
    /\ P_lib \in Nodes /\ P_x_py \in exists /\ P_x_py \notin Nodes
    /\ ~Effective(P_x_py) /\ ~Effective(P_a_go)

\* the nodes at or above p
NodesAbove(p) == {q \in Nodes : IsUnder(p, q)}

\* the deepest of them
NearestNode(p) ==
    CHOOSE q \in NodesAbove(p) : \A r \in NodesAbove(p) : Len(r) <= Len(q)

\* C3: the effective selection of a path is the stored flag of its own node
\* when it has one, and otherwise of its nearest ancestor that has a node.
C3_NearestNodeDecides ==
    \A p \in Paths :
        /\ NodesAbove(p) # {}
        /\ Effective(p) = node_index[NearestNode(p)].selected

\* src/lib/x.py has no node, and its nearest node src/lib disagrees with
\* both src and the root
C3_Witness ==
    /\ P_x_py \in exists /\ P_x_py \notin Nodes /\ P_lib \in Nodes
    /\ node_index[P_lib].selected # node_index[ROOT].selected
    /\ node_index[P_lib].selected # node_index[P_src].selected
    /\ Effective(P_x_py) = node_index[P_lib].selected

\* the node and the value of the set_node_selected call of the step
SetCall ==
    IF last'.op = "select_all" THEN <<ROOT, TRUE>>
    ELSE IF last'.op = "select_none" THEN <<ROOT, FALSE>>
    ELSE <<last'.node, ~node_index[last'.node].selected>>

\* C4: a step that calls set_node_selected(node, v) leaves v in the flag of
\* node and of every node below it that existed at the call, at any depth,
\* and v is their effective selection after the step.
C4_SetSelectedSubtree ==
    [][last'.op \in {"toggle", "select_all", "select_none"} =>
          \A d \in Nodes :
              IsUnder(d, SetCall[1]) =>
                  /\ node_index'[d].selected = SetCall[2]
                  /\ is_selected_effective(node_index', d) = SetCall[2]]_vars

\* src was toggled off while src/lib/x.py, two levels below it, had a node
C4_Witness ==
    /\ last = [op |-> "toggle", node |-> P_src]
    /\ P_x_py \in Nodes /\ P_a_go \in Nodes
    /\ ~node_index[P_src].selected
    /\ ~node_index[P_x_py].selected /\ ~Effective(P_x_py)

\* the proper ancestors of node n
Ancestors(n) == {a \in Paths : IsUnder(n, a) /\ a # n}

\* do the children of a all hold the same flag in index ni
Homogeneous(ni, a) ==
    \A k1, k2 \in Range(children[a]) : ni[k1].selected = ni[k2].selected

\* update_parent_selection(n) examines ancestor a: every ancestor of n below
\* a had homogeneous children when the loop was there (nothing at or below a
\* changes once the loop has passed it, so the state after the step tells)
Examined(n, a) ==
    \A b \in Ancestors(n) : IsUnder(b, a) /\ b # a =>
        Homogeneous(node_index', b)

\* C5: a toggle of node n runs update_parent_selection(n); each parent it
\* examines takes the value its children share, and keeps the flag it had
\* before the call when its children differ.
C5_ParentFollowsChildren ==
    [][last'.op = "toggle" =>
          \A a \in Ancestors(last'.node) :
              Examined(last'.node, a) =>
                  IF Homogeneous(node_index', a)
                  THEN \A k \in Range(children[a]) :
                           node_index'[a].selected = node_index'[k].selected
                  ELSE node_index'[a].selected = node_index[a].selected]_vars

\* src/a.go was toggled on after select-none: the children of src differ and
\* src keeps its unselected flag
C5_Witness ==
    /\ last = [op |-> "toggle", node |-> P_a_go]
    /\ P_b_bin \in Nodes
    /\ node_index[P_a_go].selected /\ ~node_index[P_b_bin].selected
    /\ ~node_index[P_src].selected

-----------------------------------------------------------------------------
(* Properties of the generated document.                                    *)

\* the document has been built and written
Generated ==
    phase = "exited" /\ last.op \in {"generate_all", "generate_selected"}

\* the answer the dialog gave
IncludeUnselected == last.op = "generate_all"

\* the names of the tree section's lines, in order
TreeNames ==
    LET tl == SelectSeq(doc, LAMBDA l : l.kind = "tree")
    IN  [i \in 1..Len(tl) |-> tl[i].name]

\* the lines of the Contents section: those after its heading
ContentsSection ==
    LET h == CHOOSE i \in 1..Len(doc) : doc[i].kind = "heading"
    IN  SubSeq(doc, h + 1, Len(doc))

\* the number of subsections of the Contents section headed by path p
HeaderCount(p) ==
    Len(SelectSeq(ContentsSection,
                  LAMBDA l : l.kind = "header" /\ l.name = RelPosix(p)))

IsFile(p) == p \in exists /\ p \notin DirPaths

\* p or one of its ancestors below ROOT is skipped
Skipped(p) == \E q \in Paths : q # ROOT /\ IsUnder(p, q) /\ should_skip(q)

\* every directory on the way from ROOT down to p can be listed
Listable(p) == \A a \in Ancestors(p) : CanList(a)

\* C2 as claimed: the Contents section has exactly one subsection for every
\* file that is not skipped and is effectively selected, and none for a file
\* that is effectively unselected or skipped.
C2_Claimed ==
    Generated =>
        \A p \in Paths : IsFile(p) =>
            /\ ~Skipped(p) /\ Effective(p) => HeaderCount(p) = 1
            /\ Skipped(p) \/ ~Effective(p) => HeaderCount(p) = 0

\* C2: the Contents section has exactly one subsection for every file that
\* is not skipped, is effectively selected and lies below directories that
\* can all be listed, and none for any other path; and every subsection is
\* headed by such a file.
C2_ContentsSubsections ==
    Generated =>
        /\ \A p \in Paths :
               HeaderCount(p) =
                   IF /\ IsFile(p) /\ ~Skipped(p) /\ Effective(p)
                      /\ Listable(p)
                   THEN 1 ELSE 0
        /\ \A i \in 1..Len(doc) : doc[i].kind = "header" =>
               \E p \in Paths : doc[i].name = RelPosix(p)

\* a document with a subsection for src/lib/x.py, which never had a node,
\* and none for the unselected src/b.bin and the skipped .git/config
C2_Witness ==
    /\ Generated
    /\ P_x_py \notin Nodes /\ IsFile(P_x_py) /\ HeaderCount(P_x_py) = 1
    /\ IsFile(P_b_bin) /\ ~Effective(P_b_bin) /\ HeaderCount(P_b_bin) = 0
    /\ IsFile(P_config) /\ Skipped(P_config) /\ HeaderCount(P_config) = 0

\* C7 as claimed: the document does not depend on the order in which the
\* filesystem lists the entries of a directory.
C7_Claimed ==
    Generated =>
        \A o \in Listings :
            build_markdown(o, node_index, IncludeUnselected) = doc

\* the example of the specification: src/a.go and src/b.bin and nothing
\* else but .git, EXCLUDES=.git, the dialog answered no, src/a.go
\* effectively selected and src/b.bin effectively unselected
ExampleCase ==
    /\ cfg = GitConfig
    /\ exists = ExampleSnapshot /\ unreadable = {}
    /\ last.op = "generate_selected"
    /\ Effective(P_a_go) /\ ~Effective(P_b_bin)

\* the one subsection of the example: src/a.go, fenced as go, holding
\* fmt.Println(1)
ExampleContents ==
    << Line("header", Join(P_a_go, "/")),
       Line("fence", <<"g", "o">>),
       [Line("content", <<>>) EXCEPT
            !.text = SubSeq(FileData(P_a_go), 1, Len(FileData(P_a_go)) - 1)],
       Line("fence_end", <<>>) >>

\* C8 as claimed: in the example the tree section lists src and a.go.
C8_Claimed ==
    ExampleCase =>
        /\ TreeNames = <<n_src, n_a_go>>
        /\ ContentsSection = ExampleContents

\* C8: in the example the tree section lists a.go, preceded by src exactly
\* when src is effectively selected, and the Contents section is the one
\* subsection src/a.go.
C8_Example ==
    ExampleCase =>
        /\ TreeNames = (IF Effective(P_src) THEN <<n_src>> ELSE <<>>)
                           \o <<n_a_go>>
        /\ ContentsSection = ExampleContents

\* the example, reached with a stale unselected flag on src: the tree
\* section lists a.go alone, and the Contents section is its subsection
C8_Witness ==
    /\ ExampleCase /\ ~Effective(P_src)
    /\ TreeNames = <<n_a_go>>
    /\ Len(ContentsSection) = 4

-----------------------------------------------------------------------------
(* Properties of should_skip, detect_binary and the reading of one file.    *)

\* p or an ancestor of p below ROOT matches an exclude pattern, by its name
\* or by its root-relative subpath
MatchesPattern(p) ==
    \E k \in 1..Len(p), pat \in cfg.EXCLUDES :
        \/ fnmatchcase(p[k], pat)
        \/ fnmatchcase(Join(SubSeq(p, 1, k), "/"), pat)

\* C6 as claimed: a path other than ROOT is skipped exactly when it is
\* hidden while hidden entries are not included, or it or an ancestor below
\* ROOT matches an exclude pattern by name or by root-relative subpath.
C6_Claimed ==
    pc = "done" /\ arg # ROOT =>
        (res <=> \/ ~cfg.INCLUDE_HIDDEN /\ is_hidden(arg)
                 \/ MatchesPattern(arg))

\* the bytes the claim lists as text: tab, newline, form feed, carriage
\* return, escape and 0x20..0xFF
ClaimedTextBytes == {9, 10, 12, 13, 27} \cup (32..255)

\* the number of bytes of sample outside the set allowed
Outside(sample, allowed) ==
    Cardinality({i \in 1..Len(sample) : sample[i] \notin allowed})

HasNull(sample) == \E i \in 1..Len(sample) : sample[i] = 0

\* C10 as claimed: binary exactly when the sample holds a null byte or more
\* than 30% of its bytes are outside tab, newline, form feed, carriage
\* return, escape and 0x20..0xFF.
C10_Claimed ==
    pc = "done" =>
        (res <=> \/ HasNull(arg)
                 \/ 10 * Outside(arg, ClaimedTextBytes) > 3 * Len(arg))

\* C10: binary exactly when the sample holds a null byte or more than 30% of
\* its bytes are outside bell, backspace, tab, newline, form feed, carriage
\* return, escape and 0x20..0xFF; a null byte alone decides.
C10_DetectBinary ==
    pc = "done" =>
        /\ res <=> \/ HasNull(arg)
                   \/ 10 * Outside(arg, {7, 8} \cup ClaimedTextBytes)
                          > 3 * Len(arg)
        /\ HasNull(arg) => res

\* a sample of bells and backspaces alone was classified text, and a sample
\* of exactly 30% control bytes as well
C10_Witness ==
    /\ pc = "done"
    /\ \/ arg = <<7, 8, 7, 8>> /\ ~res
       \/ Len(arg) = 10 /\ Outside(arg, text_chars) = 3 /\ ~res

\* the bytes of the file the sniffer sees
Sniffed == SubSeq(arg, 1, Min(Len(arg), Min(cfg.MAX_BYTES + 1, SAMPLE_BYTES)))

\* the file is embedded: not flagged binary, or READ_BINARY is set
Embedded == cfg.READ_BINARY \/ ~detect_binary(Sniffed)

\* was the truncation notice naming the limit appended
Noticed ==
    \E i \in 1..Len(res.lines) :
        res.lines[i].kind = "truncated" /\ res.lines[i].num = cfg.MAX_BYTES

\* the text between the fences
Fenced == res.lines[2].text

\* the first min(size, MAX_BYTES) bytes of the file
Kept == SubSeq(arg, 1, Min(Len(arg), cfg.MAX_BYTES))

\* C9 as claimed: at most MAX_BYTES + 1 bytes are read, the fenced block
\* holds exactly the first min(size, MAX_BYTES) bytes, and the truncation
\* notice is there exactly when size > MAX_BYTES.
C9_Claimed ==
    pc = "done" /\ Embedded =>
        /\ res.nread <= cfg.MAX_BYTES + 1
        /\ Fenced = Kept
        /\ Noticed <=> Len(arg) > cfg.MAX_BYTES

\* the bytes kept up to the last one that is no newline
KeptLines ==
    LET n == CHOOSE k \in 0..Len(Kept) :
                 /\ k = 0 \/ Kept[k] # 10
                 /\ \A i \in (k + 1)..Len(Kept) : Kept[i] = 10
    IN  SubSeq(Kept, 1, n)

\* is the number a Unicode scalar value: a code point that is no surrogate
IsScalar(cp) == cp \in 0..1114111 /\ cp \notin 55296..57343

\* UTF-8 as defined: the shortest of the four forms that holds the value
Encode(cp) ==
    IF cp < 128 THEN <<cp>>
    ELSE IF cp < 2048 THEN <<192 + (cp \div 64), 128 + (cp % 64)>>
    ELSE IF cp < 65536
         THEN <<224 + (cp \div 4096), 128 + ((cp \div 64) % 64),
                128 + (cp % 64)>>
    ELSE <<240 + (cp \div 262144), 128 + ((cp \div 4096) % 64),
           128 + ((cp \div 64) % 64), 128 + (cp % 64)>>

\* the value held by the payload bits of a lead byte and two, three or
\* four bytes in all
Payload(q) ==
    LET lead == q[1] % (IF Len(q) = 2 THEN 32 ELSE IF Len(q) = 3 THEN 16
                        ELSE 8)
        low == [i \in 2..Len(q) |-> q[i] % 64]
    IN  IF Len(q) = 1 THEN q[1]
        ELSE IF Len(q) = 2 THEN lead * 64 + low[2]
        ELSE IF Len(q) = 3 THEN lead * 4096 + low[2] * 64 + low[3]
        ELSE lead * 262144 + low[2] * 4096 + low[3] * 64 + low[4]

\* do the bytes encode a scalar value
WellFormed(q) ==
    Len(q) \in 1..4 /\ IsScalar(Payload(q)) /\ Encode(Payload(q)) = q

\* can the bytes be continued to a well-formed sequence: whether a sequence
\* is well formed depends on its bytes after the next one only in that they
\* are continuation bytes, so 0x80 stands for each of them
BeginsWellFormed(q) ==
    \E n \in 1..(4 - Len(q)), c \in 128..191 :
        WellFormed(q \o <<c>> \o [i \in 1..(n - 1) |-> 128])

\* is text the reading of bytes as UTF-8 in which every byte that begins no
\* well-formed sequence, and every run of bytes that begins one and breaks
\* off (at the end, or before a byte that does not continue it), stands as
\* one U+FFFD: the bytes fall into as many pieces as text has code points,
\* each piece the encoding of its code point or such a byte or run
Decodes(bytes, text) ==
    IF \A i \in 1..Len(bytes) : bytes[i] < 128 THEN text = bytes
    ELSE
    /\ text # <<>>
    /\ \E cuts \in SUBSET (1..(Len(bytes) - 1)) :
       LET ends == cuts \cup {Len(bytes)}
           End(i) == IF i = 0 THEN 0
                     ELSE CHOOSE e \in ends :
                              Cardinality({x \in ends : x <= e}) = i
           Piece(i) == SubSeq(bytes, End(i - 1) + 1, End(i))
           Broken(i) ==
               /\ ~WellFormed(Piece(i))
               /\ Len(Piece(i)) = 1 \/ BeginsWellFormed(Piece(i))
               /\ \/ ~BeginsWellFormed(Piece(i))
                  \/ End(i) = Len(bytes)
                  \/ ~BeginsWellFormed(Append(Piece(i), bytes[End(i) + 1]))
                     /\ ~WellFormed(Append(Piece(i), bytes[End(i) + 1]))
       IN  /\ Cardinality(ends) = Len(text)
           /\ \A i \in 1..Len(text) :
                  \/ IsScalar(text[i]) /\ Encode(text[i]) = Piece(i)
                  \/ text[i] = REPLACEMENT_CHAR /\ Broken(i)

\* C9: under a limit MAX_BYTES that is not negative, at most MAX_BYTES + 1
\* bytes are read; the fenced block holds the first min(size, MAX_BYTES)
\* bytes without the newlines at their end, read as UTF-8 with one U+FFFD
\* for every byte that begins no well-formed sequence and for every run of
\* bytes that begins one and breaks off, as a character cut at the limit
\* does; and the truncation notice is there exactly when size > MAX_BYTES.
C9_ReadLimit ==
    pc = "done" /\ cfg.MAX_BYTES >= 0 /\ Embedded =>
        /\ res.nread <= cfg.MAX_BYTES + 1
        /\ res.lines[1].kind = "fence" /\ res.lines[2].kind = "content"
        /\ Decodes(KeptLines, Fenced)
        /\ Noticed <=> Len(arg) > cfg.MAX_BYTES

\* a file holding U+20AC (0xE2 0x82 0xAC) was cut at two bytes: all three
\* bytes were read, and the two kept stand as one U+FFFD, with the notice
C9_Witness ==
    /\ pc = "done" /\ Embedded
    /\ arg = <<226, 130, 172>> /\ cfg.MAX_BYTES = 2
    /\ res.nread = cfg.MAX_BYTES + 1
    /\ Noticed /\ Fenced = <<REPLACEMENT_CHAR>>

-----------------------------------------------------------------------------
(* Failures of single filesystem entries during the build.                  *)

\* the number of lines of the tree section that name p (the names of the
\* universe differ from one another)
TreeCount(p) ==
    Len(SelectSeq(doc, LAMBDA l : l.kind = "tree" /\ l.name = Name(p)))

\* the walks of build_markdown reach p: it exists, it is not skipped, and
\* every directory above it can be listed
Reached(p) == p \in exists /\ ~Skipped(p) /\ Listable(p)

\* the path a subsection header names
HeaderPath(l) == CHOOSE p \in Paths : RelPosix(p) = l.name

\* line i of the document is of one of the kinds
KindAt(i, kinds) == i <= Len(doc) /\ doc[i].kind \in kinds

\* C11: a failure stays with its entry.  A directory that cannot be listed
\* contributes no line and no subsection, and everything else the walks
\* reach is there as if nothing had failed; a selected file that cannot be
\* opened has its header followed by one error notice and nothing more;
\* the document is always complete, from its title to its Contents heading.
C11_FailuresStayLocal ==
    Generated =>
        /\ \A p \in Paths \ {ROOT} :
               /\ TreeCount(p) =
                      IF Reached(p) /\ (IncludeUnselected \/ Effective(p))
                      THEN 1 ELSE 0
               /\ HeaderCount(p) =
                      IF Reached(p) /\ IsFile(p) /\ Effective(p)
                      THEN 1 ELSE 0
        /\ \A i \in 1..Len(doc) :
               /\ doc[i].kind = "header" =>
                      IF CanOpen(HeaderPath(doc[i]))
                      THEN KindAt(i + 1, {"binary", "fence"})
                      ELSE /\ KindAt(i + 1, {"error"})
                           /\ i + 2 > Len(doc) \/ KindAt(i + 2, {"header"})
               /\ doc[i].kind = "error" => KindAt(i - 1, {"header"})
        /\ doc[1].kind = "title" /\ doc[2].kind = "rootname"
        /\ Len(SelectSeq(doc, LAMBDA l : l.kind = "heading")) = 1

\* src/lib could not be listed and src/a.go could not be opened: src/lib
\* has its line and src/lib/x.py is nowhere, src/a.go has its header and
\* the notice, and the subsection of src/b.bin follows
C11_Witness ==
    /\ Generated
    /\ P_x_py \in exists /\ ~Skipped(P_lib) /\ ~CanList(P_lib)
    /\ TreeCount(P_lib) = 1 /\ TreeCount(P_x_py) = 0
    /\ HeaderCount(P_x_py) = 0
    /\ P_a_go \in exists /\ ~CanOpen(P_a_go)
    /\ \E i, j \in 1..Len(doc) :
           /\ i < j
           /\ doc[i] = Line("header", RelPosix(P_a_go))
           /\ doc[i + 1].kind = "error"
           /\ doc[j] = Line("header", RelPosix(P_b_bin))

-----------------------------------------------------------------------------
(* The generate intent and its dialog.                                      *)

\* C12: the document is written only by the step that answers the dialog
\* of a generate intent with yes or no; the step that cancels the dialog
\* writes nothing, leaves the application running, and leaves node_index,
\* every selected flag and the children of every node as they were.
C12_CancelWritesNothing ==
    [][/\ doc' # doc =>
              /\ phase = "dialog"
              /\ last'.op \in {"generate_all", "generate_selected"}
       /\ last'.op = "cancel" =>
              /\ phase = "dialog" /\ phase' = "running"
              /\ doc' = doc
              /\ node_index' = node_index /\ children' = children
              /\ populated' = populated]_vars

\* the dialog was cancelled over a tree with mixed selection, and nothing
\* has been written
C12_Witness ==
    /\ last.op = "cancel" /\ phase = "running"
    /\ doc = <<>>
    /\ P_a_go \in Nodes /\ P_b_bin \in Nodes
    /\ node_index[P_a_go].selected /\ ~node_index[P_b_bin].selected

-----------------------------------------------------------------------------
(* The tree section.                                                        *)

\* the tree line that names p
TreeLineOf(p) ==
    CHOOSE l \in Range(doc) : l.kind = "tree" /\ l.name = Name(p)

\* the place of the header of p in the document
HeaderIndex(p) ==
    CHOOSE i \in 1..Len(doc) : doc[i] = Line("header", RelPosix(p))

\* C13 as claimed: in a document built without the unselected entries,
\* every file that is not skipped and is effectively selected has its tree
\* line and its subsection, whatever its ancestors are.
C13_Claimed ==
    Generated /\ ~IncludeUnselected =>
        \A p \in Paths :
            IsFile(p) /\ ~Skipped(p) /\ Effective(p) =>
                TreeCount(p) = 1 /\ HeaderCount(p) = 1

\* C13: in a document built without the unselected entries, a file that is
\* not skipped and is effectively selected has, when every directory above
\* it can be listed, its tree line, marked selected and indented by its
\* depth, and its subsection, which begins with its content or the binary
\* notice, or with the error notice when the file cannot be opened, while
\* each of its ancestor directories has a line only if it is effectively
\* selected itself; when a directory above it cannot be listed it has no
\* line and no subsection.  Its effectively unselected ancestors all have
\* nodes.
C13_SelectedFileUnderUnselectedDir ==
    Generated /\ ~IncludeUnselected =>
        \A p \in Paths :
            IsFile(p) /\ ~Skipped(p) /\ Effective(p) =>
                /\ Listable(p) =>
                       /\ TreeCount(p) = 1 /\ HeaderCount(p) = 1
                       /\ TreeLineOf(p).check = ICON_SELECTED
                       /\ Len(TreeLineOf(p).prefix) = Len(p) - 1
                       /\ KindAt(HeaderIndex(p) + 1,
                                 IF CanOpen(p) THEN {"binary", "fence"}
                                 ELSE {"error"})
                       /\ \A d \in Ancestors(p) \ {ROOT} :
                              TreeCount(d) = IF Effective(d) THEN 1 ELSE 0
                /\ ~Listable(p) => TreeCount(p) = 0 /\ HeaderCount(p) = 0
                /\ \A d \in Ancestors(p) : ~Effective(d) => d \in Nodes

\* src/lib/x.py is selected two levels below the unselected src: the tree
\* section has no line for src and has the line of x.py, and x.py has its
\* subsection, which begins with its fence
C13_Witness ==
    /\ Generated /\ ~IncludeUnselected
    /\ IsFile(P_x_py) /\ Reached(P_x_py) /\ Effective(P_x_py)
    /\ CanOpen(P_x_py)
    /\ ~Effective(P_src)
    /\ TreeCount(P_src) = 0
    /\ TreeCount(P_x_py) = 1 /\ HeaderCount(P_x_py) = 1
    /\ KindAt(HeaderIndex(P_x_py) + 1, {"fence"})

\* the entries of the directory of p that tree_lines sorts: those that
\* exist and are not skipped
Siblings(p) ==
    {q \in exists \ {ROOT} : Parent(q) = Parent(p) /\ ~should_skip(q)}

\* p is the last of them in the sorted order
IsLastEntry(p) == \A q \in Siblings(p) \ {p} : KeyLess(q, p)

\* the position in the document of the tree line that names p
TreeIndex(p) ==
    CHOOSE i \in 1..Len(doc) : doc[i].kind = "tree" /\ doc[i].name = Name(p)

\* the entries of directory d that have a tree line
Emitted(d) == {q \in Paths \ {ROOT} : Parent(q) = d /\ TreeCount(q) = 1}

\* the indentation of what is below entry q
IndentBelow(q) == IF IsLastEntry(q) THEN INDENT_LAST ELSE INDENT_MID

\* the prefix of a line is, level by level, the indentation below each
\* ancestor of p
PrefixByAncestors(p) ==
    LET l == TreeLineOf(p)
    IN  /\ Len(l.prefix) = Len(p) - 1
        /\ \A k \in 1..(Len(p) - 1) :
               l.prefix[k] = IndentBelow(SubSeq(p, 1, k))

\* C14 as claimed: among the lines emitted for the entries of a directory
\* the last one carries the last-sibling connector and the earlier ones
\* the other connector.
C14_Claimed ==
    Generated =>
        \A p \in Paths \ {ROOT} :
            TreeCount(p) = 1 =>
                /\ TreeLineOf(p).branch =
                       IF \A q \in Emitted(Parent(p)) :
                              TreeIndex(q) <= TreeIndex(p)
                       THEN BRANCH_LAST ELSE BRANCH_MID
                /\ PrefixByAncestors(p)

\* C14: a line carries the last-sibling connector exactly when its entry
\* is the last of the sorted, not skipped entries of its directory, emitted
\* or not; its prefix holds, per ancestor level, blanks when that ancestor
\* is the last entry of its directory and the bar otherwise.
C14_Connectors ==
    Generated =>
        \A p \in Paths \ {ROOT} :
            TreeCount(p) = 1 =>
                /\ TreeLineOf(p).branch =
                       IF IsLastEntry(p) THEN BRANCH_LAST ELSE BRANCH_MID
                /\ PrefixByAncestors(p)

\* without the unselected entries: src/a.go is the last line of src and
\* carries the connector of a middle entry, for the unselected src/b.bin
\* sorts after it; src/lib/x.py is indented with blanks below src and with
\* the bar below src/lib
C14_Witness ==
    /\ Generated /\ ~IncludeUnselected
    /\ TreeCount(P_a_go) = 1 /\ Reached(P_b_bin) /\ TreeCount(P_b_bin) = 0
    /\ TreeLineOf(P_a_go).branch = BRANCH_MID
    /\ \A q \in Emitted(P_src) : TreeIndex(q) <= TreeIndex(P_a_go)
    /\ TreeCount(P_x_py) = 1
    /\ TreeLineOf(P_x_py).branch = BRANCH_LAST
    /\ TreeLineOf(P_x_py).prefix = <<INDENT_LAST, INDENT_MID>>

-----------------------------------------------------------------------------
(* Population of the tree.                                                  *)

\* the entries of directory d on disk that populate_children keeps
Survivors(d) ==
    IF CanList(d)
    THEN {q \in exists \ {ROOT} : Parent(q) = d /\ ~should_skip(q)}
    ELSE {}

\* the step leaves the tree as it is
TreeUnchanged == node_index' = node_index /\ children' = children

\* C15 as claimed: expanding a node whose directory has been listed since
\* the last refresh, with whatever number of surviving entries, leaves the
\* tree as it is.
C15_Claimed ==
    [][last'.op = "expand" /\ last'.node \in populated => TreeUnchanged]_vars

\* C16: a step that populates a node (on_mount, an expansion) gives every
\* node it creates the selected flag the populated node holds, changes the
\* flag of no node that was there, and changes the effective selection of
\* no path.
C16_PopulateKeepsSelection ==
    [][last'.op \in {"mount", "expand"} =>
          /\ \A c \in DOMAIN node_index' \ DOMAIN node_index :
                 node_index'[c].selected = node_index[last'.node].selected
          /\ \A q \in DOMAIN node_index :
                 node_index'[q].selected = node_index[q].selected
          /\ \A p \in Paths :
                 is_selected_effective(node_index', p)
                     = is_selected_effective(node_index, p)]_vars

\* src/lib, unselected below the selected src, has been expanded: its
\* child src/lib/x.py is unselected
C16_Witness ==
    /\ last = [op |-> "expand", node |-> P_lib]
    /\ P_x_py \in Nodes
    /\ node_index[ROOT].selected /\ node_index[P_src].selected
    /\ ~node_index[P_lib].selected /\ ~node_index[P_x_py].selected

\* the direct entries of ROOT on disk that are not skipped
RootEntries == {q \in exists \ {ROOT} : Parent(q) = ROOT /\ ~should_skip(q)}

\* what a refresh step keeps and resets: the flag of the root stays, the
\* nodes are the root and the given entries, each entry a fresh node without
\* children that holds the flag of the root, and so every path has the
\* effective selection of the root
RefreshedTo(entries) ==
    /\ node_index'[ROOT].selected = node_index[ROOT].selected
    /\ DOMAIN node_index' = {ROOT} \cup entries
    /\ Range(children'[ROOT]) = entries
    /\ Len(children'[ROOT]) = Cardinality(entries)
    /\ \A q \in entries :
           /\ node_index'[q].selected = node_index[ROOT].selected
           /\ children'[q] = <<>>
    /\ \A p \in Paths :
           is_selected_effective(node_index', p) = node_index[ROOT].selected

\* C17 as claimed: after a refresh the nodes are the root and the direct
\* entries of ROOT on disk that are not skipped.
C17_Claimed ==
    [][last'.op = "refresh" => RefreshedTo(RootEntries)]_vars

\* C17: after a refresh the nodes are the root and the entries that the
\* listing of ROOT yields and that are not skipped: the direct entries on
\* disk when ROOT can be listed, and none when its listing fails.
C17_Refresh ==
    [][last'.op = "refresh" => RefreshedTo(Survivors(ROOT))]_vars

\* a refresh with the root unselected: src is a fresh unselected node
\* without children, and src/a.go, without a node, is unselected
C17_Witness ==
    /\ last.op = "refresh"
    /\ ~node_index[ROOT].selected
    /\ P_src \in Nodes /\ ~node_index[P_src].selected
    /\ children[P_src] = <<>>
    /\ P_a_go \in exists /\ P_a_go \notin Nodes /\ ~Effective(P_a_go)

-----------------------------------------------------------------------------
(* The upward walk of is_selected_effective.                                *)

\* C18: ROOT has a node in every reachable state, and for every path at or
\* below ROOT the loop of is_selected_effective ends after at most one
\* round per part of the path and one for ROOT, at a path that has a node.
C18_WalkEndsAtNode ==
    /\ ROOT \in DOMAIN node_index
    /\ \A p \in Paths :
           LET w == effective_walk(node_index, p)
           IN  /\ Len(w) <= Len(p) + 1
               /\ w[Len(w)] \in DOMAIN node_index
               /\ \A i \in 1..(Len(w) - 1) : w[i] \notin DOMAIN node_index
               /\ Effective(p) = node_index[w[Len(w)]].selected

\* right after a refresh that could not list ROOT the root is the only
\* node: the walk from src/lib/x.py goes all the way up to it
C18_Witness ==
    /\ last.op = "refresh"
    /\ Nodes = {ROOT} /\ P_x_py \in exists
    /\ effective_walk(node_index, P_x_py) = <<P_x_py, P_lib, P_src, ROOT>>

-----------------------------------------------------------------------------
(* Upward propagation.                                                      *)

\* C19: in every state a handler leaves, a node with children that all
\* hold the same flag holds that flag too: a node disagrees with a child
\* only when its children differ.
C19_ParentAgreesWithChildren ==
    \A n \in Nodes :
        children[n] # <<>> /\ Homogeneous(node_index, n) =>
            \A k \in Range(children[n]) :
                node_index[n].selected = node_index[k].selected

\* src/lib/x.py was toggled on after select-none: src/lib, whose only
\* child it is, follows, and so src/lib and src/a.go differ below src,
\* which keeps its unselected flag, as does the root above it
C19_Witness ==
    /\ last = [op |-> "toggle", node |-> P_x_py]
    /\ node_index[P_x_py].selected /\ node_index[P_lib].selected
    /\ P_a_go \in Nodes /\ ~node_index[P_a_go].selected
    /\ ~node_index[P_src].selected /\ ~node_index[ROOT].selected

\* C20: a toggle of node n changes flags and nothing else; it leaves alone
\* every node that is neither n, nor below n, nor an ancestor of n, and
\* every ancestor of n from the first one whose children differ upwards.
C20_ToggleFrame ==
    [][last'.op = "toggle" =>
          LET n == last'.node
          IN  /\ DOMAIN node_index' = DOMAIN node_index
              /\ children' = children
              /\ \A q \in Nodes :
                     /\ node_index'[q].path = node_index[q].path
                     /\ node_index'[q].is_dir = node_index[q].is_dir
                     /\ ~IsUnder(q, n) /\ ~IsUnder(n, q) =>
                            node_index'[q] = node_index[q]
              /\ \A a \in Ancestors(n) :
                     \/ Examined(n, a) /\ Homogeneous(node_index', a)
                     \/ node_index'[a] = node_index[a]]_vars

\* src/a.go was toggled on while everything else is unselected: its
\* siblings src/b.bin and src/lib, src/lib/x.py below them, src above it,
\* whose children now differ, and the root are unselected as before
C20_Witness ==
    /\ last = [op |-> "toggle", node |-> P_a_go]
    /\ node_index[P_a_go].selected
    /\ {P_b_bin, P_lib, P_x_py} \subseteq Nodes
    /\ \A q \in {P_b_bin, P_lib, P_x_py, P_src, ROOT} :
           ~node_index[q].selected

=============================================================================
